---- MODULE Spec2Model ----
(***************************************************************************)
(* Model of final.py: three normalizers that turn a source file into a     *)
(* list of {id, text, sentiment} records, and inject_spelling_errors,      *)
(* which perturbs the text of every record of a dataframe.                 *)
(*                                                                         *)
(* A Python str is a sequence of one-character strings.  A field that      *)
(* holds no str (pandas NaN, a JSON null / absent key) is one of the       *)
(* markers NaN and None below.                                             *)
(***************************************************************************)
EXTENDS Integers, Sequences, FiniteSets, TLC

VARIABLES
    \* ---- normalizers ----
    source,         \* which format_*_for_evaluate runs: "movie", "fashion", "financial", "none"
    rows,           \* the parsed input file, one element per row / line
    idx,            \* the loop index of the normalizer (0-based)
    data,           \* the list `data` of output records
    npc,            \* "loop", "done" (returned), "failed" (exception), "off"
    \* ---- corruptor ----
    heap,           \* dataframe objects, by reference
    formatted_df,   \* reference of the input dataframe
    pending,        \* degrees of the calls of inject_spelling_errors still to make
    results,        \* references returned by the calls made so far
    pc,             \* "idle", "apply", "loop", "edit", "failed", "off"
    degree,         \* the degree of the running call
    modified_df,    \* reference of the running call's modified_df
    r,              \* 1-based row whose text Series.apply is handling
    newtexts,       \* the texts Series.apply has produced so far
    words,          \* add_errors_to_text: the list `words`
    num_words_to_modify,
    k,              \* add_errors_to_text: iterations of the for loop started
    widx,           \* add_errors_to_text: the drawn index (0-based)
    word,           \* introduce_error: the local `word`
    draws           \* error kinds drawn since the word was selected

nvars == <<source, rows, idx, data, npc>>
cvars == <<heap, formatted_df, pending, results, pc, degree, modified_df, r,
           newtexts, words, num_words_to_modify, k, widx, word, draws>>
vars == <<source, rows, idx, data, npc, heap, formatted_df, pending, results, pc,
          degree, modified_df, r, newtexts, words, num_words_to_modify, k, widx,
          word, draws>>

----------------------------------------------------------------------------
(* Strings *)

NaN == <<"<NaN>">>
None == <<"<None>">>

Whitespace == {" ", "\t", "\n"}

RECURSIVE lstrip(_)
lstrip(s) == IF s = <<>> \/ Head(s) \notin Whitespace THEN s ELSE lstrip(Tail(s))

RECURSIVE rstrip(_)
rstrip(s) ==
    IF s = <<>> \/ s[Len(s)] \notin Whitespace THEN s
    ELSE rstrip(SubSeq(s, 1, Len(s) - 1))

strip(s) == rstrip(lstrip(s))

RECURSIVE replace(_, _, _)
replace(s, old, new) ==
    IF Len(s) < Len(old) THEN s
    ELSE IF SubSeq(s, 1, Len(old)) = old
         THEN new \o replace(SubSeq(s, Len(old) + 1, Len(s)), old, new)
         ELSE <<Head(s)>> \o replace(Tail(s), old, new)

Alphabet ==
    <<"a", "b", "c", "d", "e", "f", "g", "h", "i", "j", "k", "l", "m",
      "n", "o", "p", "q", "r", "s", "t", "u", "v", "w", "x", "y", "z">>

Capitals ==
    <<"A", "B", "C", "D", "E", "F", "G", "H", "I", "J", "K", "L", "M",
      "N", "O", "P", "Q", "R", "S", "T", "U", "V", "W", "X", "Y", "Z">>

lower(s) ==
    [i \in 1..Len(s) |->
        IF \E n \in 1..Len(Capitals) : Capitals[n] = s[i]
        THEN Alphabet[CHOOSE n \in 1..Len(Capitals) : Capitals[n] = s[i]]
        ELSE s[i]]

\* str.split() with no argument: the maximal runs of non-whitespace
\* characters, in order.  The two halves are split and the word that runs
\* across the cut is put together again.
RECURSIVE split(_)
split(s) ==
    IF Len(s) = 0 THEN <<>>
    ELSE IF Len(s) = 1 THEN (IF s[1] \in Whitespace THEN <<>> ELSE <<s>>)
    ELSE LET h == Len(s) \div 2
             a == split(SubSeq(s, 1, h))
             b == split(SubSeq(s, h + 1, Len(s)))
         IN  IF s[h] \notin Whitespace /\ s[h + 1] \notin Whitespace
             THEN SubSeq(a, 1, Len(a) - 1) \o <<a[Len(a)] \o b[1]>> \o Tail(b)
             ELSE a \o b

\* sep.join(ws)
RECURSIVE joinWith(_, _)
joinWith(ws, sep) ==
    IF ws = <<>> THEN <<>>
    ELSE IF Len(ws) = 1 THEN ws[1]
    ELSE LET h == Len(ws) \div 2 IN
         joinWith(SubSeq(ws, 1, h), sep) \o sep \o joinWith(SubSeq(ws, h + 1, Len(ws)), sep)

\* " ".join(ws)
join(ws) == joinWith(ws, <<" ">>)

positive == <<"p", "o", "s", "i", "t", "i", "v", "e">>
negative == <<"n", "e", "g", "a", "t", "i", "v", "e">>
neutral == <<"n", "e", "u", "t", "r", "a", "l">>
BR == <<"<", "b", "r", " ", "/", ">">>

----------------------------------------------------------------------------
(* Normalizers *)

MaxRows == 3

\* sequences over S of length 0..n
SeqsUpTo(S, n) == UNION {[1..m -> S] : m \in 0..n}

MovieRows ==
    [review : {NaN, <<"a", "b">>, <<" ", "a">> \o BR \o <<"b", " ">>, BR},
     sentiment : {positive, negative}]

\* overall is kept in tenths: 35 is the rating 3.5; NoRating is an absent
\* or null "overall" (review.get returns None)
NoRating == 0 - 1

Ratings == {NoRating, 0, 10, 20, 30, 35, 40, 50, 60}

FashionRows ==
    {[reviewText |-> <<"o", "k", " ">>, overall |-> o] : o \in Ratings}
    \cup {[reviewText |-> t, overall |-> 50] : t \in {None, <<>>, <<" ">>}}
    \cup {[reviewText |-> None, overall |-> NoRating]}

FinancialRows ==
    [sentiment : {NaN, <<" ">>, <<" ", "P">> \o Tail(positive), neutral},
     text : {NaN, <<" ">>, <<"u", "p", " ">>}]

CorruptorOff ==
    /\ heap = <<>>
    /\ formatted_df = 0
    /\ pending = <<>>
    /\ results = <<>>
    /\ pc = "off"
    /\ degree = 0
    /\ modified_df = 0
    /\ r = 0
    /\ newtexts = <<>>
    /\ words = <<>>
    /\ num_words_to_modify = 0
    /\ k = 0
    /\ widx = 0
    /\ word = <<>>
    /\ draws = 0

InitNormalize ==
    /\ source \in {"fashion", "financial", "movie"}
    /\ rows \in CASE source = "movie" -> SeqsUpTo(MovieRows, MaxRows)
                  [] source = "fashion" -> SeqsUpTo(FashionRows, MaxRows)
                  [] source = "financial" -> SeqsUpTo(FinancialRows, MaxRows)
    /\ idx = 0
    /\ data = <<>>
    /\ npc = "loop"
    /\ CorruptorOff

Record(i, t, s) == [id |-> i, text |-> t, sentiment |-> s]

\* faulty variant: the id is the position in the filtered output
RowIdDense(i) == Len(data)

\* the id a normalizer gives the record of the row at loop index i
RowId(i) == i

\* lines 24-41
format_movie_reviews_for_evaluate ==
    /\ source = "movie"
    /\ npc = "loop"
    /\ IF idx < Len(rows)
       THEN LET row == rows[idx + 1] IN
            IF row.review = NaN
            THEN \* float has no .replace: AttributeError
                 /\ npc' = "failed"
                 /\ UNCHANGED <<idx, data>>
            ELSE /\ data' = Append(data,
                        Record(RowId(idx), strip(replace(row.review, BR, <<" ">>)),
                               row.sentiment))
                 /\ idx' = idx + 1
                 /\ UNCHANGED npc
       ELSE /\ npc' = "done"
            /\ UNCHANGED <<idx, data>>
    /\ UNCHANGED <<source, rows>>
    /\ UNCHANGED cvars

\* `if not review_text`: None and the empty str are falsy
FashionTextMissing(review_text) == review_text = None \/ review_text = <<>>

\* faulty variant: any rating from 3 up to 4 is neutral
FashionSentimentRange(overall) ==
    IF overall \in {10, 20} THEN negative
    ELSE IF overall >= 30 /\ overall < 40 THEN neutral
    ELSE IF overall \in {40, 50} THEN positive
    ELSE None

\* lines 75-82; None is the `continue` of the else branch
FashionSentiment(overall) ==
    IF overall \in {10, 20} THEN negative
    ELSE IF overall = 30 THEN neutral
    ELSE IF overall \in {40, 50} THEN positive
    ELSE None

\* lines 60-91
format_fashion_reviews_for_evaluate ==
    /\ source = "fashion"
    /\ npc = "loop"
    /\ IF idx < Len(rows)
       THEN LET review == rows[idx + 1]
                review_text == review.reviewText
                sentiment == FashionSentiment(review.overall)
            IN  /\ idx' = idx + 1
                /\ UNCHANGED npc
                /\ IF FashionTextMissing(review_text) \/ sentiment = None
                   THEN UNCHANGED data
                   ELSE data' = Append(data,
                            Record(RowId(idx), strip(review_text), sentiment))
       ELSE /\ npc' = "done"
            /\ UNCHANGED <<idx, data>>
    /\ UNCHANGED <<source, rows>>
    /\ UNCHANGED cvars

\* line 119
FinancialSkip(sentiment, text) == sentiment = <<>> \/ text = <<>>

\* lines 110-129
format_financial_news_for_evaluate ==
    /\ source = "financial"
    /\ npc = "loop"
    /\ IF idx < Len(rows)
       THEN LET row == rows[idx + 1] IN
            IF row.sentiment = NaN \/ row.text = NaN
            THEN \* float has no .strip: AttributeError
                 /\ npc' = "failed"
                 /\ UNCHANGED <<idx, data>>
            ELSE LET sentiment == lower(strip(row.sentiment))
                     text == strip(row.text)
                 IN  /\ idx' = idx + 1
                     /\ UNCHANGED npc
                     /\ IF FinancialSkip(sentiment, text)
                        THEN UNCHANGED data
                        ELSE data' = Append(data, Record(RowId(idx), text, sentiment))
       ELSE /\ npc' = "done"
            /\ UNCHANGED <<idx, data>>
    /\ UNCHANGED <<source, rows>>
    /\ UNCHANGED cvars

----------------------------------------------------------------------------
(* Corruptor *)

\* the first AlphabetSize letters of "abcdefghijklmnopqrstuvwxyz" (line 151)
AlphabetSize == 2
MaxDraws == 2

Letters == {Alphabet[i] : i \in 1..AlphabetSize}

ErrorTypes == {"substitution", "transposition", "omission", "duplication", "scramble"}

\* the edits below take the 0-based index the code draws

\* line 152
Substitution(w, i, c) == SubSeq(w, 1, i) \o <<c>> \o SubSeq(w, i + 2, Len(w))

\* line 156
Transposition(w, i) ==
    SubSeq(w, 1, i) \o <<w[i + 2]>> \o <<w[i + 1]>> \o SubSeq(w, i + 3, Len(w))

\* faulty variant: the tail is taken from idx + 2
OmissionTwo(w, i) == SubSeq(w, 1, i) \o SubSeq(w, i + 3, Len(w))

\* line 160
Omission(w, i) == SubSeq(w, 1, i) \o SubSeq(w, i + 2, Len(w))

\* line 164
Duplication(w, i) ==
    SubSeq(w, 1, i) \o <<w[i + 1], w[i + 1]>> \o SubSeq(w, i + 2, Len(w))

\* w without its first occurrence of c
RECURSIVE RemoveOne(_, _)
RemoveOne(w, c) ==
    IF w = <<>> THEN <<>>
    ELSE IF Head(w) = c THEN Tail(w)
    ELSE <<Head(w)>> \o RemoveOne(Tail(w), c)

\* line 167: random.sample(word, len(word)) is any arrangement of the characters
RECURSIVE Scramble(_)
Scramble(w) ==
    IF w = <<>> THEN {<<>>}
    ELSE UNION {{<<c>> \o rest : rest \in Scramble(RemoveOne(w, c))} :
                    c \in {w[i] : i \in 1..Len(w)}}

\* faulty variant: only the empty word is skipped
TooShortEmpty(w) == Len(w) < 1

\* line 144
TooShort(w) == Len(w) < 2

\* lines 149-167: the words one edit attempt of the drawn kind can give
ApplyError(error_type, w, severity) ==
    IF error_type = "substitution"
    THEN {Substitution(w, i, c) : i \in 0..(Len(w) - 1), c \in Letters}
    ELSE IF error_type = "transposition" /\ Len(w) > 2
    THEN {Transposition(w, i) : i \in 0..(Len(w) - 2)}
    ELSE IF error_type = "omission"
    THEN {Omission(w, i) : i \in 0..(Len(w) - 1)}
    ELSE IF error_type = "duplication"
    THEN {Duplication(w, i) : i \in 0..(Len(w) - 1)}
    ELSE IF error_type = "scramble" /\ severity = 3
    THEN Scramble(w)
    ELSE {w}

\* lines 170-173: the severities at which random.random() can ask for another pass
MayCompound(severity) == severity = 3 \/ severity = 2

LightDivisor == 50
ModerateDivisor == 10
SevereDivisor == 5

Max(a, b) == IF a >= b THEN a ELSE b

\* faulty variant: the count is rounded up
NumWordsRoundUp(n, d) ==
    IF d = 1 THEN Max(1, (n + LightDivisor - 1) \div LightDivisor)
    ELSE IF d = 2 THEN Max(1, (n + ModerateDivisor - 1) \div ModerateDivisor)
    ELSE Max(1, (n + SevereDivisor - 1) \div SevereDivisor)

\* faulty variant: moderate and severe share the severe divisor
NumWordsSameDivisor(n, d) ==
    IF d = 1 THEN Max(1, n \div LightDivisor)
    ELSE Max(1, n \div SevereDivisor)

\* faulty variant: no floor of one selection
NumWordsNoFloor(n, d) ==
    IF d = 1 THEN n \div LightDivisor
    ELSE IF d = 2 THEN n \div ModerateDivisor
    ELSE n \div SevereDivisor

\* lines 180-185
NumWordsToModify(n, d) ==
    IF d = 1 THEN Max(1, n \div LightDivisor)
    ELSE IF d = 2 THEN Max(1, n \div ModerateDivisor)
    ELSE Max(1, n \div SevereDivisor)

\* faulty variant: modified_df is the input object itself
CopyAlias(h, ref) == <<h, ref>>

\* line 193: DataFrame.copy() makes a new object with the same contents
Copy(h, ref) == <<Append(h, h[ref]), Len(h) + 1>>

\* faulty variant: the frame is rebuilt from the new texts with a fresh index as id
SetTextReindexed(df, texts) ==
    [i \in 1..Len(df) |-> [df[i] EXCEPT !.text = texts[i], !.id = i - 1]]

\* line 194: the text column of the dataframe is replaced by the new Series
SetText(df, texts) == [i \in 1..Len(df) |-> [df[i] EXCEPT !.text = texts[i]]]

NormalizerOff ==
    /\ source = "none"
    /\ rows = <<>>
    /\ idx = 0
    /\ data = <<>>
    /\ npc = "off"

\* line 193, and Series.apply starts on the first row
inject_spelling_errors_call ==
    /\ pc = "idle"
    /\ pending # <<>>
    /\ degree' = Head(pending)
    /\ LET c == Copy(heap, formatted_df) IN
        /\ heap' = c[1]
        /\ modified_df' = c[2]
    /\ r' = 1
    /\ newtexts' = <<>>
    /\ pc' = "apply"
    /\ UNCHANGED <<formatted_df, pending, results, words, num_words_to_modify, k,
                   widx, word, draws>>
    /\ UNCHANGED nvars

\* lines 178-185
add_errors_to_text_begin ==
    /\ pc = "apply"
    /\ r <= Len(heap[modified_df])
    /\ words' = split(heap[modified_df][r].text)
    /\ num_words_to_modify' = NumWordsToModify(Len(words'), degree)
    /\ k' = 0
    /\ pc' = "loop"
    /\ UNCHANGED <<heap, formatted_df, pending, results, degree, modified_df, r,
                   newtexts, widx, word, draws>>
    /\ UNCHANGED nvars

\* lines 187-189, up to the call of introduce_error
add_errors_to_text_loop ==
    /\ pc = "loop"
    /\ k < num_words_to_modify
    /\ IF Len(words) = 0
       THEN \* random.randint(0, -1): ValueError
            /\ pc' = "failed"
            /\ UNCHANGED <<k, widx, word, draws>>
       ELSE \E i \in 0..(Len(words) - 1) :
                /\ widx' = i
                /\ word' = words[i + 1]
                /\ k' = k + 1
                /\ draws' = 0
                /\ pc' = "edit"
    /\ UNCHANGED <<heap, formatted_df, pending, results, degree, modified_df, r,
                   newtexts, words, num_words_to_modify>>
    /\ UNCHANGED nvars

\* lines 143-175: one pass of introduce_error; a pass that does not recurse
\* returns through every enclosing pass into words[idx] (line 189)
introduce_error ==
    /\ pc = "edit"
    /\ IF TooShort(word)
       THEN /\ words' = [words EXCEPT ![widx + 1] = word]
            /\ pc' = "loop"
            /\ UNCHANGED <<word, draws>>
       ELSE \E error_type \in ErrorTypes :
            \E w \in ApplyError(error_type, word, degree) :
                /\ word' = w
                /\ draws' = draws + 1
                /\ \/ /\ MayCompound(degree)
                      /\ draws + 1 < MaxDraws
                      /\ pc' = "edit"
                      /\ UNCHANGED words
                   \/ /\ words' = [words EXCEPT ![widx + 1] = w]
                      /\ pc' = "loop"
    /\ UNCHANGED <<heap, formatted_df, pending, results, degree, modified_df, r,
                   newtexts, num_words_to_modify, k, widx>>
    /\ UNCHANGED nvars

\* line 191
add_errors_to_text_return ==
    /\ pc = "loop"
    /\ k >= num_words_to_modify
    /\ newtexts' = Append(newtexts, join(words))
    /\ r' = r + 1
    /\ pc' = "apply"
    /\ UNCHANGED <<heap, formatted_df, pending, results, degree, modified_df, words,
                   num_words_to_modify, k, widx, word, draws>>
    /\ UNCHANGED nvars

\* lines 194-195
inject_spelling_errors_return ==
    /\ pc = "apply"
    /\ r > Len(heap[modified_df])
    /\ heap' = [heap EXCEPT ![modified_df] = SetText(heap[modified_df], newtexts)]
    /\ results' = Append(results, modified_df)
    /\ pending' = Tail(pending)
    /\ pc' = "idle"
    /\ UNCHANGED <<formatted_df, degree, modified_df, r, newtexts, words,
                   num_words_to_modify, k, widx, word, draws>>
    /\ UNCHANGED nvars

NextCorrupt ==
    \/ inject_spelling_errors_call
    \/ add_errors_to_text_begin
    \/ add_errors_to_text_loop
    \/ introduce_error
    \/ add_errors_to_text_return
    \/ inject_spelling_errors_return

CorruptorIdle ==
    /\ formatted_df = 1
    /\ results = <<>>
    /\ pc = "idle"
    /\ degree = 0
    /\ modified_df = 0
    /\ r = 0
    /\ newtexts = <<>>
    /\ words = <<>>
    /\ num_words_to_modify = 0
    /\ k = 0
    /\ widx = 0
    /\ word = <<>>
    /\ draws = 0

\* the dataframes the script's three calls (lines 218-220) are run on
ScriptFrames ==
    { <<>>,
      <<Record(0, <<"a", "b">>, positive)>>,
      <<Record(0, <<"a">>, positive), Record(2, <<" ", "b", "a", "\t", "b">>, negative)>>,
      <<Record(0, <<"b">>, negative), Record(1, <<" ">>, positive)>>,
      <<Record(0, <<>>, negative), Record(1, <<"a", "b">>, positive)>> }

Init ==
    /\ NormalizerOff
    /\ CorruptorIdle
    /\ \E df \in ScriptFrames : heap = <<df>>
    /\ pending = <<1, 2, 3>>

Next == NextCorrupt

Spec == Init /\ [][Next]_vars

MaxWords == 5

\* word counts around the places where len(words) // divisor steps from 0 to 1
\* and from 1 to 2, by degree
LongShapes ==
    {<<1, 9>>, <<1, 49>>, <<1, 50>>, <<1, 99>>, <<1, 100>>,
     <<2, 9>>, <<2, 10>>, <<2, 19>>, <<2, 20>>,
     <<3, 9>>, <<3, 10>>}

ShortShapes == {<<d, n>> : d \in 1..3, n \in 0..MaxWords}

ShortLeads == { <<<<"a", "b">>>>, <<<<"a">>, <<"b", "a">>, <<"a", "b", "A">>>> }
LongLead == <<<<"a", "b">>, <<"b", "a">>>>

\* n words: those of lead, then one-letter words
WordsOf(n, lead) == [i \in 1..n |-> IF i <= Len(lead) THEN lead[i] ELSE <<"a">>]

\* the words separated by single spaces, or by runs of whitespace
TextOf(ws, ragged) ==
    IF ragged THEN <<" ">> \o joinWith(ws, <<"\t", " ">>) \o <<"\n">>
    ELSE joinWith(ws, <<" ">>)

InputTexts ==
    {<<sh[1], TextOf(WordsOf(sh[2], lead), ragged)>> :
        sh \in ShortShapes, lead \in ShortLeads, ragged \in BOOLEAN}
    \cup {<<sh[1], TextOf(WordsOf(sh[2], LongLead), FALSE)>> : sh \in LongShapes}

\* one call of inject_spelling_errors on a one-record dataframe
InitText ==
    /\ NormalizerOff
    /\ CorruptorIdle
    /\ \E in \in InputTexts :
        /\ heap = << <<Record(7, in[2], positive)>> >>
        /\ pending = <<in[1]>>

SpecText == InitText /\ [][Next]_vars

NextNormalize ==
    \/ format_movie_reviews_for_evaluate
    \/ format_fashion_reviews_for_evaluate
    \/ format_financial_news_for_evaluate

SpecNormalize == InitNormalize /\ [][NextNormalize]_vars

----------------------------------------------------------------------------
(* Properties *)

AllBlank(s) == \A i \in 1..Len(s) : s[i] \in Whitespace

Ids == [j \in 1..Len(data) |-> data[j].id]

InputDf == heap[formatted_df]
InputWords(i) == split(InputDf[i].text)
OutputWords(i) == split(newtexts[i])

\* the number of word positions at which two word lists differ
DiffCount(a, b) ==
    Cardinality({i \in 1..Max(Len(a), Len(b)) :
                    i > Len(a) \/ i > Len(b) \/ a[i] # b[i]})

\* add_errors_to_text has returned for row Len(newtexts), and k is its loop count
RowDone == pc \in {"apply", "idle"} /\ Len(newtexts) >= 1

ExpectedSelections(n, d) ==
    CASE d = 1 -> IF n < 50 THEN 1 ELSE n \div 50
      [] d = 2 -> IF n < 10 THEN 1 ELSE n \div 10
      [] d = 3 -> IF n < 5 THEN 1 ELSE n \div 5

\* C1: every dataframe inject_spelling_errors has returned has as many records
\* as the input, and at each position the input record's id and sentiment.
C1_IdAndLabelKept ==
    \A j \in 1..Len(results) :
        LET out == heap[results[j]] IN
        /\ Len(out) = Len(InputDf)
        /\ \A i \in 1..Len(out) :
            /\ out[i].id = InputDf[i].id
            /\ out[i].sentiment = InputDf[i].sentiment
            /\ DOMAIN out[i] = DOMAIN InputDf[i]

C1_Witness ==
    /\ Len(results) = 3
    /\ Len(InputDf) = 2
    /\ InputDf[2].id = 2
    /\ heap[results[3]][2].text # InputDf[2].text

\* C2: no step of any call changes the input dataframe: its records keep their
\* id, text and sentiment through all three calls of the script.
C2_InputUntouched == [][heap'[formatted_df'] = heap[formatted_df]]_vars

C2_Witness ==
    /\ Len(results) = 3
    /\ InputDf # <<>>
    /\ \A j \in 1..3 : heap[results[j]][Len(InputDf)].text # InputDf[Len(InputDf)].text

\* C3: a line the fashion normalizer has passed has a record exactly when its
\* reviewText is present and non-empty and its rating is 1, 2, 3, 4 or 5; the
\* record is labelled negative for 1 and 2, neutral for 3, positive for 4 and
\* 5; and the normalizer raises no error.
C3_FashionKeepsRatedText ==
    source = "fashion" =>
        /\ npc # "failed"
        /\ \A i \in 0..(idx - 1) :
            LET line == rows[i + 1]
                kept == {j \in 1..Len(data) : data[j].id = i}
                hasText == line.reviewText # None /\ Len(line.reviewText) > 0
                rated == line.overall \in {10, 20, 30, 40, 50}
            IN  /\ kept # {} <=> (hasText /\ rated)
                /\ \A j \in kept :
                    data[j].sentiment =
                        CASE line.overall \in {10, 20} -> negative
                          [] line.overall = 30 -> neutral
                          [] line.overall \in {40, 50} -> positive

C3_Witness ==
    /\ source = "fashion"
    /\ npc = "done"
    /\ Len(rows) = 3
    /\ rows[1].overall = 35
    /\ rows[2].overall = NoRating
    /\ rows[3].overall = 30
    /\ Len(data) = 1

\* the rows the fashion and financial normalizers leave out
DroppedRow(i) ==
    LET row == rows[i + 1] IN
    IF source = "fashion"
    THEN \/ row.reviewText \in {None, <<>>}
         \/ row.overall \notin {10, 20, 30, 40, 50}
    ELSE AllBlank(row.sentiment) \/ AllBlank(row.text)

\* C4: in the fashion and financial normalizers the ids of the output are
\* strictly increasing, each is the zero-based index of the row the record was
\* made from, and the indices missing from them are exactly the dropped rows.
C4_IdIsRowIndex ==
    source \in {"fashion", "financial"} =>
        /\ \A j \in 1..(Len(data) - 1) : Ids[j] < Ids[j + 1]
        /\ {Ids[j] : j \in 1..Len(data)} = {i \in 0..(idx - 1) : ~DroppedRow(i)}
        /\ \A j \in 1..Len(data) :
            LET row == rows[Ids[j] + 1] IN
            data[j].text = strip(IF source = "fashion" THEN row.reviewText ELSE row.text)

C4_Witness ==
    /\ source = "financial"
    /\ npc = "done"
    /\ Ids = <<0, 2>>

Vocabulary ==
    IF source = "movie" THEN {positive, negative} ELSE {positive, negative, neutral}

\* C5: every record a normalizer has produced has a non-empty text and a label
\* of the source's vocabulary.
C5_TextAndLabelValid ==
    source \in {"movie", "fashion", "financial"} =>
        \A j \in 1..Len(data) :
            /\ data[j].text # <<>>
            /\ data[j].sentiment \in Vocabulary

\* C6: a pass of introduce_error that is given a word of fewer than two
\* characters draws no edit kind, does not recurse, raises nothing and returns
\* the word as it is into words[idx].
C6_ShortWordReturned ==
    [][(pc = "edit" /\ Len(word) < 2) =>
          /\ word' = word
          /\ words' = [words EXCEPT ![widx + 1] = word]
          /\ draws' = draws
          /\ pc' = "loop"]_vars

C6_Witness ==
    /\ pc = "loop"
    /\ degree = 3
    /\ k = 1
    /\ draws = 0
    /\ Len(word) = 1
    /\ words[widx + 1] = word

\* C7 as stated: at degree 1 a text of 1 to 99 words comes back differing from
\* the input in exactly one word position.
C7_ExactlyOneWordDiffers ==
    (RowDone /\ degree = 1) =>
        LET i == Len(newtexts)
            n == Len(InputWords(i))
        IN  (1 <= n /\ n <= 99) => DiffCount(InputWords(i), OutputWords(i)) = 1

\* C7 amended: at degree 1 a text of 1 to 99 words gets exactly one word
\* selection and comes back differing from the input in at most one position.
C7_OneSelectionAtMostOneDiff ==
    (RowDone /\ degree = 1) =>
        LET i == Len(newtexts)
            n == Len(InputWords(i))
        IN  (1 <= n /\ n <= 99) =>
                /\ k = 1
                /\ DiffCount(InputWords(i), OutputWords(i)) <= 1

C7_Witness ==
    /\ RowDone
    /\ degree = 1
    /\ Len(InputWords(1)) = 9
    /\ k = 1
    /\ DiffCount(InputWords(1), OutputWords(1)) = 1

\* C8: for a text of n >= 1 words the loop makes max(1, n div 50) selections
\* at degree 1, max(1, n div 10) at degree 2 and max(1, n div 5) at degree 3,
\* each of an index in 0..n-1, and the output differs from the input in at
\* most that many word positions.
C8_SelectionCount ==
    /\ pc = "edit" => widx \in 0..(Len(words) - 1)
    /\ (pc \in {"loop", "edit"} /\ words # <<>>) =>
            k <= ExpectedSelections(Len(InputWords(r)), degree)
    /\ RowDone =>
        LET i == Len(newtexts)
            n == Len(InputWords(i))
        IN  /\ n >= 1
            /\ k = ExpectedSelections(n, degree)
            /\ DiffCount(InputWords(i), OutputWords(i)) <= k

\* the second selection draws the index of a word the first one changed
C8_Witness ==
    /\ pc = "edit"
    /\ k = 2
    /\ degree = 2
    /\ Len(InputWords(r)) = 20
    /\ draws = 0
    /\ word # InputWords(r)[widx + 1]

C10_NoWordEmptied ==
    /\ \A i \in 1..Len(words) : words[i] # <<>> /\ \A c \in 1..Len(words[i]) : words[i][c] \notin Whitespace
    /\ pc = "edit" => word # <<>>
    /\ \A i \in 1..Len(newtexts) :
        /\ Len(OutputWords(i)) = Len(InputWords(i))
        /\ newtexts[i] = join(OutputWords(i))

\* a two-character word cut to one character, and the recursive pass given it
C10_Witness ==
    /\ pc = "edit"
    /\ degree = 3
    /\ draws = 1
    /\ Len(word) = 1
    /\ Len(words[widx + 1]) = 2

====
